---------------------------- MODULE Spec2Model ----------------------------
(***************************************************************************)
(* Twilio Media Streams <-> ElevenLabs ConvAI bridge (src/server.js).      *)
(*                                                                         *)
(* One inbound (Twilio) WebSocket session and the outbound (ElevenLabs)    *)
(* sockets it dials.  Every handler registered in wss.on('connection') is  *)
(* one action; the transports (the ws library and the two peers) are the   *)
(* environment that delivers open / message / close / error events.       *)
(*                                                                         *)
(* JavaScript values: strings are TLA+ strings, `undefined` and `null`     *)
(* are the marker Undefined, byte buffers and typed arrays are sequences   *)
(* of integers, base64 text is a sequence of sextets (0..63, 64 for '=').  *)
(***************************************************************************)
EXTENDS Integers, Sequences, FiniteSets, TLC

(* ------------------------------ bounds -------------------------------- *)

\* most outbound sockets one session may dial in a run
MaxDials == 2
\* most audio-carrying messages (inbound `media`, outbound `audio`) handled in a run
MaxChunks == 1
\* most inbound connections the process accepts in a run
MaxSessions == 2
\* longest sample sequence handed to the resamplers on their own
MaxSamples == 3

(* --------------------------- JavaScript values ------------------------ *)

Undefined == "<undefined>"

\* truthiness of a string-or-undefined value: `if (x)`, `x || y`, `!x`
Truthy(x) == x # Undefined /\ x # ""

\* a || b
Or(a, b) == IF Truthy(a) THEN a ELSE b

Min(a, b) == IF a < b THEN a ELSE b
Max(a, b) == IF a > b THEN a ELSE b

Pow2(n) == 2 ^ n

(* ------------------------------ base64 -------------------------------- *)

Pad == 64

\* number of data characters before the first '=' (Node stops decoding there)
B64DataLen(s) ==
    IF \E i \in 1..Len(s) : s[i] = Pad
    THEN (CHOOSE i \in 1..Len(s) : s[i] = Pad /\ \A j \in 1..(i-1) : s[j] # Pad) - 1
    ELSE Len(s)

\* Buffer.from(s, 'base64'): 4 characters carry 3 bytes, a tail of 2 or 3
\* characters carries 1 or 2 bytes, a tail of 1 character carries none
B64DecodeN(s, n) ==
    LET c(i) == IF i <= n THEN s[i] ELSE 0
    IN  [k \in 1..((n * 6) \div 8) |->
            LET g == ((k - 1) \div 3) * 4
                r == (k - 1) % 3
            IN  CASE r = 0 -> c(g + 1) * 4 + c(g + 2) \div 16
                  [] r = 1 -> (c(g + 2) % 16) * 16 + c(g + 3) \div 4
                  [] r = 2 -> (c(g + 3) % 4) * 64 + c(g + 4)]

B64Decode(s) == B64DecodeN(s, B64DataLen(s))

\* buf.toString('base64')
B64Encode(b) ==
    LET n == Len(b)
        y(i) == IF i <= n THEN b[i] ELSE 0
    IN  [k \in 1..(((n + 2) \div 3) * 4) |->
            LET g == ((k - 1) \div 4) * 3
                r == (k - 1) % 4
            IN  CASE r = 0 -> y(g + 1) \div 4
                  [] r = 1 -> (y(g + 1) % 4) * 16 + y(g + 2) \div 16
                  [] r = 2 -> IF g + 2 > n THEN Pad
                              ELSE (y(g + 2) % 16) * 4 + y(g + 3) \div 64
                  [] r = 3 -> IF g + 3 > n THEN Pad ELSE y(g + 3) % 64]

(* ---------------------------- audio helpers --------------------------- *)

muLawDecode(b) ==
    LET uVal      == 255 - b
        sign      == IF uVal >= 128 THEN -1 ELSE 1
        exponent  == (uVal \div 16) % 8
        mantissa  == uVal % 16
        magnitude == ((mantissa * 2) + 1) * Pow2(exponent + 2)
    IN  sign * (magnitude - 132)

\* the for loop of muLawEncode: the highest exponent whose mask bit is set
RECURSIVE ExpScan(_, _, _)
ExpScan(sample, exponent, expMask) ==
    IF (sample \div expMask) % 2 = 0 /\ exponent > 0
    THEN ExpScan(sample, exponent - 1, expMask \div 2)
    ELSE exponent

muLawEncode(s) ==
    LET clamped  == Max(-32768, Min(32767, s))
        sign     == IF clamped < 0 THEN 128 ELSE 0
        mag      == IF clamped < 0 THEN -clamped ELSE clamped
        biased   == Min(mag + 132, 32767)
        exponent == ExpScan(biased, 7, 16384)
        mantissa == (biased \div Pow2(exponent + 3)) % 16
    IN  255 - (sign + exponent * 16 + mantissa)

\* value stored in an Int16Array element
ToInt16(v) == LET m == v % 65536 IN IF m >= 32768 THEN m - 65536 ELSE m

\* new Int16Array(pcm8.length * 2 - 1) throws RangeError for an empty input
upsampleThrows(pcm8) == Len(pcm8) = 0

\* upsampling with midpoints rounded up
upsampleRoundingUp(pcm8) ==
    [j \in 1..(Len(pcm8) * 2 - 1) |->
        IF j % 2 = 1 THEN pcm8[(j + 1) \div 2]
        ELSE ToInt16((pcm8[j \div 2] + pcm8[j \div 2 + 1] + 1) \div 2)]

upsample8kTo16k(pcm8) ==
    [j \in 1..(Len(pcm8) * 2 - 1) |->
        IF j % 2 = 1 THEN pcm8[(j + 1) \div 2]
        ELSE ToInt16((pcm8[j \div 2] + pcm8[j \div 2 + 1]) \div 2)]

downsample16kTo8k(pcm16) ==
    [j \in 1..(Len(pcm16) \div 2) |->
        ToInt16((pcm16[2 * j - 1] + pcm16[2 * j]) \div 2)]

twilioB64MuLawToPcm8k(b64) ==
    LET buf == B64Decode(b64) IN [i \in 1..Len(buf) |-> muLawDecode(buf[i])]

pcm8kToMuLawBuffer(pcm) == [i \in 1..Len(pcm) |-> muLawEncode(pcm[i])]

\* new Int16Array(buf.byteLength / 2) truncates a fractional length
b64Pcm16ToInt16(b64, littleEndian) ==
    LET buf == B64Decode(b64)
    IN  [i \in 1..(Len(buf) \div 2) |->
            IF littleEndian
            THEN ToInt16(buf[2 * i - 1] + 256 * buf[2 * i])
            ELSE ToInt16(buf[2 * i] + 256 * buf[2 * i - 1])]

\* the 2 * arr.length bytes written by writeInt16LE / writeInt16BE
Int16Bytes(arr, littleEndian) ==
    [k \in 1..(2 * Len(arr)) |->
        LET u  == arr[(k + 1) \div 2] % 65536
            lo == u % 256
            hi == u \div 256
        IN  IF (k % 2 = 1) = littleEndian THEN lo ELSE hi]

int16ToB64Pcm16(arr, littleEndian) == B64Encode(Int16Bytes(arr, littleEndian))

\* getCustomParams: absent -> {}, an array of {name, value} -> reduced into an
\* object (a later pair overwrites an earlier one), an object -> itself
RECURSIVE ReducePairs(_, _)
ReducePairs(a, pairs) ==
    IF pairs = <<>> THEN a
    ELSE ReducePairs((Head(pairs).name :> Head(pairs).value) @@ a, Tail(pairs))

EmptyObj == [n \in {} |-> Undefined]

\* getCustomParams without its Array.isArray branch: the array is returned as
\* it is and has neither an agent_id nor a token property
getCustomParamsArrayAsObject(start) ==
    LET cp == start.customParameters
    IN  CASE cp.form = "none" -> EmptyObj
          [] cp.form = "list" -> EmptyObj
          [] cp.form = "map"  -> cp.obj

getCustomParams(start) ==
    LET cp == start.customParameters
    IN  CASE cp.form = "none" -> EmptyObj
          [] cp.form = "list" -> ReducePairs(EmptyObj, cp.pairs)
          [] cp.form = "map"  -> cp.obj

\* property access obj.name
Get(obj, name) == IF name \in DOMAIN obj THEN obj[name] ELSE Undefined

(* ------------------------------ transport ----------------------------- *)
(* The ws library's socket states.  readyState CLOSING is split in three:  *)
(* CLOSING (close() was called on an open socket, by the bridge or by ws   *)
(* itself before it emits 'error'; messages may still arrive until         *)
(* 'close'), ABORTED (close() was called while connecting: nothing arrives *)
(* but 'error' and then 'close') and FAILED (the handshake failed or was   *)
(* aborted and 'error' was emitted: nothing arrives but 'close').  After   *)
(* an 'error' of an open socket the model still lets the transport deliver *)
(* messages, a superset of what ws delivers.                               *)

ReadyState(st) ==
    CASE st = "CONNECTING" -> "CONNECTING"
      [] st = "OPEN"       -> "OPEN"
      [] st = "CLOSED"     -> "CLOSED"
      [] OTHER             -> "CLOSING"

\* ws.close(code, reason): never throws for the codes 1000 and 1008
WsClose(st) ==
    CASE st = "OPEN"       -> "CLOSING"
      [] st = "CONNECTING" -> "ABORTED"
      [] OTHER             -> st

\* ws.send(data) without a callback: throws while CONNECTING, transmits while
\* OPEN, silently discards afterwards
WsSend(st) ==
    CASE ReadyState(st) = "CONNECTING" -> "throws"
      [] ReadyState(st) = "OPEN"       -> "sent"
      [] OTHER                         -> "dropped"

(* ------------------------------- state -------------------------------- *)

VARIABLES
    cfg,        \* process.env: TWILIO_ACCOUNT_SID, ELEVENLABS_AGENT_ID, ELEVEN_ENDIAN
    metrics,    \* the six counters of `metrics`
    twState,    \* the inbound socket twilioWS: NONE before the connection
    streamSid,  \* let streamSid
    agentId,    \* let agentId
    elevenWS,   \* let elevenWS: 0 for null, else an index into legs
    legs,       \* every outbound socket dialed so far, in dial order
    ev,         \* the event handled by the last step
    twSent,     \* twilioWS.send calls made by the last step
    elSent,     \* send calls on outbound sockets made by the last step
    closeCalls, \* close(code) calls made by the last step (leg 0 is twilioWS)
    dialed,     \* agent identifiers dialed by the last step
    authFailed, \* some `start` envelope of the session was rejected
    authPassed  \* some `start` envelope of the session was accepted

vars == <<cfg, metrics, twState, streamSid, agentId, elevenWS, legs,
          ev, twSent, elSent, closeCalls, dialed, authFailed, authPassed>>

session == <<streamSid, agentId, elevenWS>>

\* event_id of a ping that carries none (null or undefined)
NoEventId == -1

TwLeg == 0

NoEvent == [kind |-> "none", leg |-> 0]

Configs ==
    [TWILIO_ACCOUNT_SID  : {Undefined, "AC123"},
     ELEVENLABS_AGENT_ID : {Undefined, "agentD"},
     ELEVEN_ENDIAN       : {"le", "be"}]

\* the session specification runs with the default byte order of line 9, with
\* neither or both of the account check and the default agent configured
SessionConfigs ==
    {c \in Configs : /\ c.ELEVEN_ENDIAN = "le"
                     /\ (c.TWILIO_ACCOUNT_SID = Undefined) = (c.ELEVENLABS_AGENT_ID = Undefined)}

\* the state when the process listens, before the inbound connection
InitWith(configs) ==
    /\ cfg \in configs
    /\ metrics = [twilioConnections |-> 0, elevenConnections |-> 0,
                  bytesFromTwilio |-> 0, bytesToTwilio |-> 0,
                  chunksFrom11L |-> 0, chunksFromTwilio |-> 0]
    /\ twState = "NONE"
    /\ streamSid = Undefined
    /\ agentId = Undefined
    /\ elevenWS = 0
    /\ legs = <<>>
    /\ ev = NoEvent
    /\ twSent = <<>>
    /\ elSent = <<>>
    /\ closeCalls = <<>>
    /\ dialed = <<>>
    /\ authFailed = FALSE
    /\ authPassed = FALSE

Init == InitWith(SessionConfigs)

\* what one handler run did besides changing the session
Did(e, tw, el, cl, dl) ==
    /\ ev' = e
    /\ twSent' = tw
    /\ elSent' = el
    /\ closeCalls' = cl
    /\ dialed' = dl

CloseCall(leg, code) == [leg |-> leg, code |-> code]

\* wss.on('connection')
Connection ==
    /\ twState = "NONE"
    /\ twState' = "OPEN"
    /\ metrics' = [metrics EXCEPT !.twilioConnections = @ + 1]
    /\ Did([kind |-> "connection", leg |-> TwLeg], <<>>, <<>>, <<>>, <<>>)
    /\ UNCHANGED <<cfg, session, legs, authFailed, authPassed>>

\* a connection handler that starts its counters afresh
NextConnectionFreshMetrics ==
    /\ twState = "CLOSED"
    /\ \A k \in DOMAIN legs : legs[k] = "CLOSED"
    /\ metrics.twilioConnections < MaxSessions
    /\ twState' = "OPEN"
    /\ metrics' = [c \in DOMAIN metrics |-> IF c = "twilioConnections" THEN 1 ELSE 0]
    /\ streamSid' = Undefined /\ agentId' = Undefined /\ elevenWS' = 0 /\ legs' = <<>>
    /\ authFailed' = FALSE /\ authPassed' = FALSE
    /\ Did([kind |-> "connection", leg |-> TwLeg], <<>>, <<>>, <<>>, <<>>)
    /\ UNCHANGED cfg

\* wss.on('connection') for a later inbound connection: a new closure with its
\* own streamSid, agentId and elevenWS over the same process-wide metrics.
\* The model follows one session at a time: the next one is taken up when
\* every socket of the previous one is closed and can deliver nothing more
NextConnection ==
    /\ twState = "CLOSED"
    /\ \A k \in DOMAIN legs : legs[k] = "CLOSED"
    /\ metrics.twilioConnections < MaxSessions
    /\ twState' = "OPEN"
    /\ metrics' = [metrics EXCEPT !.twilioConnections = @ + 1]
    /\ streamSid' = Undefined /\ agentId' = Undefined /\ elevenWS' = 0 /\ legs' = <<>>
    /\ authFailed' = FALSE /\ authPassed' = FALSE
    /\ Did([kind |-> "connection", leg |-> TwLeg], <<>>, <<>>, <<>>, <<>>)
    /\ UNCHANGED cfg

(* ----------------------- inbound `start` envelope --------------------- *)

\* customParameters in its three wire shapes
CpNone == [form |-> "none", pairs |-> <<>>, obj |-> EmptyObj]
CpList(pairs) == [form |-> "list", pairs |-> pairs, obj |-> EmptyObj]
CpMap(obj) == [form |-> "map", pairs |-> <<>>, obj |-> obj]

Pair(n, v) == [name |-> n, value |-> v]

\* the pairs / the object carrying agent_id a and token t (Undefined: key absent)
PairsOf(a, t) ==
    (IF a = Undefined THEN <<>> ELSE <<Pair("agent_id", a)>>)
        \o (IF t = Undefined THEN <<>> ELSE <<Pair("token", t)>>)
ObjOf(a, t) ==
    (IF a = Undefined THEN EmptyObj ELSE "agent_id" :> a)
        @@ (IF t = Undefined THEN EmptyObj ELSE "token" :> t)

\* (agent_id, token) combinations; Undefined: the key is absent
ParamValues ==
    {<<"agentX", "t1">>, <<Undefined, "t1">>, <<"agentX", Undefined>>,
     <<"agentX", "">>, <<"", "t1">>, <<Undefined, Undefined>>}

CustomParams ==
    {CpNone}
        \cup {CpList(PairsOf(v[1], v[2])) : v \in ParamValues}
        \cup {CpMap(ObjOf(v[1], v[2])) : v \in ParamValues}
        \cup {CpList(<<Pair("token", ""), Pair("agent_id", "agentX"), Pair("token", "t1")>>)}

StartMsg(top, sid, acct, cp) ==
    [streamSid |-> top,
     start |-> [streamSid |-> sid, accountSid |-> acct, customParameters |-> cp]]

\* the `start` envelopes delivered; an envelope without a `start` object reads
\* as one whose start fields are all undefined (msg.start?.x)
StartMsgs ==
    {StartMsg(Undefined, "MZ1", "AC123", cp) : cp \in CustomParams}
        \cup {StartMsg(Undefined, "MZ1", acct, CpMap(ObjOf("agentX", "t1"))) :
                acct \in {Undefined, "AC999"}}
        \cup {StartMsg(Undefined, "MZ1", "AC999", CpNone),
              StartMsg(Undefined, Undefined, "AC123", CpList(PairsOf("agentX", "t1"))),
              StartMsg("MZ1", "", "AC123", CpList(PairsOf("agentX", "t1")))}

\* the `start` envelopes of the session specification: accepted ones (with and
\* without a stream identifier) and one for each way of being rejected
SessionStarts ==
    {StartMsg(Undefined, "MZ1", "AC123", CpMap(ObjOf("agentX", "t1"))),
     StartMsg(Undefined, Undefined, "AC123", CpList(PairsOf("agentX", "t1"))),
     StartMsg(Undefined, "MZ1", "AC123", CpMap(ObjOf("agentX", Undefined))),
     StartMsg(Undefined, "MZ1", "AC123", CpList(PairsOf(Undefined, "t1"))),
     StartMsg(Undefined, "MZ1", "AC999", CpMap(ObjOf("agentX", "t1")))}

\* the start branch without its token check
StartNoTokenCheck(m, c) ==
    LET cp == getCustomParams(m.start)
    IN  IF Truthy(c.TWILIO_ACCOUNT_SID) /\ m.start.accountSid # c.TWILIO_ACCOUNT_SID
        THEN "bad account"
        ELSE IF ~Truthy(Or(Get(cp, "agent_id"), c.ELEVENLABS_AGENT_ID))
        THEN "Missing agent_id"
        ELSE "ok"

\* lines 165-176: the three checks of the start branch, in order
StartOutcome(m, c) ==
    LET cp == getCustomParams(m.start)
    IN  IF Truthy(c.TWILIO_ACCOUNT_SID) /\ m.start.accountSid # c.TWILIO_ACCOUNT_SID
        THEN "bad account"
        ELSE IF ~Truthy(Or(Get(cp, "agent_id"), c.ELEVENLABS_AGENT_ID))
        THEN "Missing agent_id"
        ELSE IF ~Truthy(Get(cp, "token"))
        THEN "Missing token"
        ELSE "ok"

\* twilioWS.on('message'), msg.event === 'start'
TwilioStart(m) ==
    LET outcome  == StartOutcome(m, cfg)
        resolved == Or(Get(getCustomParams(m.start), "agent_id"), cfg.ELEVENLABS_AGENT_ID)
    IN  /\ twState \in {"OPEN", "CLOSING"}
        /\ outcome = "ok" => Len(legs) < MaxDials
        /\ streamSid' = Or(m.start.streamSid, m.streamSid)
        /\ agentId' = IF outcome = "bad account" THEN agentId ELSE resolved
        /\ IF outcome = "ok"
           THEN \* connectEleven(agentId)
                /\ legs' = Append(legs, "CONNECTING")
                /\ elevenWS' = Len(legs) + 1
                /\ metrics' = [metrics EXCEPT !.elevenConnections = @ + 1]
                /\ twState' = twState
                /\ authPassed' = TRUE
                /\ authFailed' = authFailed
                /\ Did([kind |-> "start", leg |-> TwLeg, msg |-> m],
                       <<>>, <<>>, <<>>, <<resolved>>)
           ELSE \* twilioWS.close(1008, reason); return
                /\ twState' = WsClose(twState)
                /\ authFailed' = TRUE
                /\ authPassed' = authPassed
                /\ Did([kind |-> "start", leg |-> TwLeg, msg |-> m],
                       <<>>, <<>>, <<CloseCall(TwLeg, 1008)>>, <<>>)
                /\ UNCHANGED <<legs, elevenWS, metrics>>
        /\ UNCHANGED cfg

(* ------------------------ sends to the two legs ----------------------- *)

FRAME == 160

\* send11 without its readyState test
send11NoStateCheck(obj) ==
    IF elevenWS # 0 THEN <<[obj EXCEPT !.leg = elevenWS]>> ELSE <<>>

\* const send11 = (obj) => ...: the sends it makes on the current outbound socket
send11(obj) ==
    IF elevenWS # 0 /\ ReadyState(legs[elevenWS]) = "OPEN"
    THEN <<[obj EXCEPT !.leg = elevenWS]>>
    ELSE <<>>

UserAudioChunk(b64) ==
    [leg |-> 0, type |-> "user_audio_chunk", event_id |-> NoEventId, data |-> b64]
Pong(id) ==
    [leg |-> 0, type |-> "pong", event_id |-> id, data |-> <<>>]

\* the loop of sendTwMediaFrames: ulawBuf.subarray(i, min(i + FRAME, length))
\* for i = 0, FRAME, 2 * FRAME, ... while i < length
RECURSIVE FrameSlicesFrom(_, _)
FrameSlicesFrom(ulawBuf, i) ==
    IF i < Len(ulawBuf)
    THEN <<SubSeq(ulawBuf, i + 1, Min(i + FRAME, Len(ulawBuf)))>>
             \o FrameSlicesFrom(ulawBuf, i + FRAME)
    ELSE <<>>

\* the loop stopping before a final partial frame
RECURSIVE WholeFramesFrom(_, _)
WholeFramesFrom(ulawBuf, i) ==
    IF i + FRAME <= Len(ulawBuf)
    THEN <<SubSeq(ulawBuf, i + 1, i + FRAME)>> \o WholeFramesFrom(ulawBuf, i + FRAME)
    ELSE <<>>

FrameSlicesWholeOnly(ulawBuf) == WholeFramesFrom(ulawBuf, 0)

\* the frames taken from the end of the buffer first
FrameSlicesLastFirst(ulawBuf) ==
    LET slices == FrameSlicesFrom(ulawBuf, 0)
    IN  [k \in 1..Len(slices) |-> slices[Len(slices) + 1 - k]]

FrameSlices(ulawBuf) == FrameSlicesFrom(ulawBuf, 0)

MediaEnvelope(sid, slice) ==
    [event |-> "media", streamSid |-> sid, payload |-> B64Encode(slice)]
MarkEnvelope(sid) ==
    [event |-> "mark", streamSid |-> sid, payload |-> <<>>]

\* the twilioWS.send calls of sendTwMediaFrames, in order
sendTwMediaFrames(ulawBuf, sid) ==
    LET slices == FrameSlices(ulawBuf)
    IN  [k \in 1..Len(slices) |-> MediaEnvelope(sid, slices[k])] \o <<MarkEnvelope(sid)>>

\* the audio branch without its streamSid test
AudioSendsUnguarded(ulawBuf, sid) == sendTwMediaFrames(ulawBuf, sid)

\* if (streamSid) sendTwMediaFrames(ulaw)
AudioSends(ulawBuf, sid) ==
    IF Truthy(sid) THEN sendTwMediaFrames(ulawBuf, sid) ELSE <<>>

\* metrics.bytesToTwilio += slice.length, once per frame
RECURSIVE SumLen(_)
SumLen(slices) == IF slices = <<>> THEN 0 ELSE Len(Head(slices)) + SumLen(Tail(slices))

(* ----------------------- inbound leg: other events -------------------- *)

\* inbound payloads: the empty string (falsy), one character (no byte) and
\* two mu-law bytes
MediaPayloads == {<<>>, <<63>>, B64Encode(<<255, 16>>)}

\* the byte count taken from the base64 text itself
MediaStringLength(p) == Len(p)

\* Buffer.from(msg.media.payload, 'base64').length
MediaByteCount(p) == Len(B64Decode(p))

\* twilioWS.on('message'), msg.event === 'media'
TwilioMedia(p) ==
    LET pcm8   == twilioB64MuLawToPcm8k(p)
        little == cfg.ELEVEN_ENDIAN = "le"
    IN  /\ twState \in {"OPEN", "CLOSING"}
        /\ IF p # <<>>
           THEN /\ metrics.chunksFromTwilio + metrics.chunksFrom11L < MaxChunks
                /\ metrics' = [metrics EXCEPT
                                  !.bytesFromTwilio = @ + MediaByteCount(p),
                                  !.chunksFromTwilio = @ + 1]
                /\ Did([kind |-> "media", leg |-> TwLeg, payload |-> p], <<>>,
                       IF upsampleThrows(pcm8) THEN <<>>
                       ELSE send11(UserAudioChunk(
                                int16ToB64Pcm16(upsample8kTo16k(pcm8), little))),
                       <<>>, <<>>)
           ELSE /\ metrics' = metrics
                /\ Did([kind |-> "media", leg |-> TwLeg, payload |-> p],
                       <<>>, <<>>, <<>>, <<>>)
        /\ UNCHANGED <<cfg, twState, session, legs, authFailed, authPassed>>

\* a close handler that leaves the outbound socket alone
CloseElevenSkipped ==
    /\ legs' = legs
    /\ closeCalls' = <<>>

\* if (elevenWS) elevenWS.close(1000, ...)
CloseEleven ==
    IF elevenWS # 0
    THEN /\ legs' = [legs EXCEPT ![elevenWS] = WsClose(@)]
         /\ closeCalls' = <<CloseCall(elevenWS, 1000)>>
    ELSE /\ legs' = legs
         /\ closeCalls' = <<>>

\* twilioWS.on('message'), msg.event === 'stop'
TwilioStop ==
    /\ twState \in {"OPEN", "CLOSING"}
    /\ CloseEleven
    /\ ev' = [kind |-> "stop", leg |-> TwLeg]
    /\ twSent' = <<>> /\ elSent' = <<>> /\ dialed' = <<>>
    /\ UNCHANGED <<cfg, metrics, twState, session, authFailed, authPassed>>

\* the message handler with a final `else` in place of the test for 'stop'
TwilioOtherAsStop ==
    /\ twState \in {"OPEN", "CLOSING"}
    /\ CloseEleven
    /\ ev' = [kind |-> "other", leg |-> TwLeg]
    /\ twSent' = <<>> /\ elSent' = <<>> /\ dialed' = <<>>
    /\ UNCHANGED <<cfg, metrics, twState, session, authFailed, authPassed>>

\* twilioWS.on('message'): text that is no JSON (JSON.parse throws into the
\* catch of line 193), the text `null` (msg.event throws into it), or JSON
\* whose event tag matches no branch
TwilioOther ==
    /\ twState \in {"OPEN", "CLOSING"}
    /\ Did([kind |-> "other", leg |-> TwLeg], <<>>, <<>>, <<>>, <<>>)
    /\ UNCHANGED <<cfg, metrics, twState, session, legs, authFailed, authPassed>>

\* twilioWS.on('close')
TwilioClose ==
    /\ twState \in {"OPEN", "CLOSING"}
    /\ twState' = "CLOSED"
    /\ CloseEleven
    /\ ev' = [kind |-> "close", leg |-> TwLeg]
    /\ twSent' = <<>> /\ elSent' = <<>> /\ dialed' = <<>>
    /\ UNCHANGED <<cfg, metrics, session, authFailed, authPassed>>

\* twilioWS.on('error'): the handler logs; ws has left OPEN before it emits
\* 'error', and emits 'close' later
TwilioError ==
    /\ twState \in {"OPEN", "CLOSING"}
    /\ twState' = "CLOSING"
    /\ Did([kind |-> "error", leg |-> TwLeg], <<>>, <<>>, <<>>, <<>>)
    /\ UNCHANGED <<cfg, metrics, session, legs, authFailed, authPassed>>

(* ----------------------------- outbound legs -------------------------- *)

Legs == 1..Len(legs)

\* the outbound socket reports its handshake done (no handler is registered)
ElevenOpen(k) ==
    /\ legs[k] = "CONNECTING"
    /\ legs' = [legs EXCEPT ![k] = "OPEN"]
    /\ Did([kind |-> "open", leg |-> k], <<>>, <<>>, <<>>, <<>>)
    /\ UNCHANGED <<cfg, metrics, twState, session, authFailed, authPassed>>

EventIds == {NoEventId, 0, 7}

\* elevenWS.on('message'), msg.type === 'ping': the reply goes through the
\* variable elevenWS, the socket dialed last
ElevenPing(k, id) ==
    /\ legs[k] \in {"OPEN", "CLOSING"}
    /\ Did([kind |-> "ping", leg |-> k, event_id |-> id], <<>>,
           IF id # NoEventId /\ WsSend(legs[elevenWS]) # "throws"
           THEN <<[Pong(id) EXCEPT !.leg = elevenWS]>>
           ELSE <<>>,
           <<>>, <<>>)
    /\ UNCHANGED <<cfg, metrics, twState, session, legs, authFailed, authPassed>>

\* bytes i -> (seed + 37 * i) mod 256 of a PCM16 payload of n bytes
PcmBytes(n, seed) == [i \in 1..n |-> (seed + 37 * i) % 256]

\* outbound audio payloads: the empty string (falsy), and 1 and 5 bytes
AudioPayloads == {<<>>} \cup {B64Encode(PcmBytes(n, 200)) : n \in {1, 5}}

\* elevenWS.on('message'), msg.type === 'audio'
ElevenAudio(k, b64) ==
    LET little == cfg.ELEVEN_ENDIAN = "le"
        pcm16  == b64Pcm16ToInt16(b64, little)
        pcm8   == downsample16kTo8k(pcm16)
        ulaw   == pcm8kToMuLawBuffer(pcm8)
    IN  /\ legs[k] \in {"OPEN", "CLOSING"}
        /\ IF b64 # <<>>
           THEN /\ metrics.chunksFromTwilio + metrics.chunksFrom11L < MaxChunks
                /\ metrics' = [metrics EXCEPT
                                  !.chunksFrom11L = @ + 1,
                                  !.bytesToTwilio =
                                      IF Truthy(streamSid)
                                      THEN @ + SumLen(FrameSlices(ulaw)) ELSE @]
                /\ twSent' = AudioSends(ulaw, streamSid)
           ELSE /\ metrics' = metrics
                /\ twSent' = <<>>
        /\ ev' = [kind |-> "audio", leg |-> k, payload |-> b64]
        /\ elSent' = <<>> /\ closeCalls' = <<>> /\ dialed' = <<>>
        /\ UNCHANGED <<cfg, twState, session, legs, authFailed, authPassed>>

\* elevenWS.on('message'): text that is no JSON (JSON.parse throws into the
\* catch of line 148), the text `null` (msg.type throws into it), or JSON
\* whose type tag matches neither test
ElevenOther(k) ==
    /\ legs[k] \in {"OPEN", "CLOSING"}
    /\ Did([kind |-> "other", leg |-> k], <<>>, <<>>, <<>>, <<>>)
    /\ UNCHANGED <<cfg, metrics, twState, session, legs, authFailed, authPassed>>

\* elevenWS.on('close'): twilioWS.close(1000, '11L closed')
ElevenClose(k) ==
    /\ legs[k] \in {"OPEN", "CLOSING", "FAILED"}
    /\ legs' = [legs EXCEPT ![k] = "CLOSED"]
    /\ twState' = WsClose(twState)
    /\ Did([kind |-> "close", leg |-> k], <<>>, <<>>, <<CloseCall(TwLeg, 1000)>>, <<>>)
    /\ UNCHANGED <<cfg, metrics, session, authFailed, authPassed>>

\* elevenWS.on('error'): the handler logs; ws has left CONNECTING or OPEN
\* before it emits 'error', and emits 'close' later
ElevenError(k) ==
    /\ legs[k] \in {"CONNECTING", "OPEN", "CLOSING", "ABORTED"}
    /\ legs' = [legs EXCEPT ![k] = IF @ \in {"CONNECTING", "ABORTED"}
                                   THEN "FAILED" ELSE "CLOSING"]
    /\ Did([kind |-> "error", leg |-> k], <<>>, <<>>, <<>>, <<>>)
    /\ UNCHANGED <<cfg, metrics, twState, session, authFailed, authPassed>>

(* ---------------------------- specifications -------------------------- *)

\* one session: every event of both legs, in every order
Next ==
    \/ Connection
    \/ \E m \in SessionStarts : TwilioStart(m)
    \/ \E p \in MediaPayloads : TwilioMedia(p)
    \/ TwilioStop
    \/ TwilioOther
    \/ TwilioClose
    \/ TwilioError
    \/ \E k \in Legs : ElevenOpen(k)
    \/ \E k \in Legs, id \in EventIds : ElevenPing(k, id)
    \/ \E k \in Legs, b64 \in AudioPayloads : ElevenAudio(k, b64)
    \/ \E k \in Legs : ElevenOther(k)
    \/ \E k \in Legs : ElevenClose(k)
    \/ \E k \in Legs : ElevenError(k)

Spec == Init /\ [][Next]_vars

\* authentication: every configuration and every `start` envelope of StartMsgs,
\* in any order, while either leg may close
AuthNext ==
    \/ Connection
    \/ \E m \in StartMsgs : TwilioStart(m)
    \/ TwilioClose
    \/ \E k \in Legs : ElevenOpen(k)
    \/ \E k \in Legs : ElevenClose(k)

AuthSpec == InitWith(Configs) /\ [][AuthNext]_vars

\* frame pacing: both byte orders, accepted `start` envelopes with and without
\* a stream identifier, and outbound audio of zero to three frames
PacerConfigs ==
    {c \in Configs : /\ c.TWILIO_ACCOUNT_SID = Undefined
                     /\ c.ELEVENLABS_AGENT_ID = Undefined}

PacerStarts ==
    {StartMsg(Undefined, "MZ1", "AC123", CpMap(ObjOf("agentX", "t1"))),
     StartMsg(Undefined, Undefined, "AC123", CpList(PairsOf("agentX", "t1")))}

\* PCM16 payload lengths in bytes: 4 bytes make one mu-law byte
PacerLengths == {2, 4, 636, 640, 643, 644, 1280, 1284}

PacerPayloads == {B64Encode(PcmBytes(n, 200)) : n \in PacerLengths}

PacerNext ==
    \/ Connection
    \/ \E m \in PacerStarts : TwilioStart(m)
    \/ \E k \in Legs : ElevenOpen(k)
    \/ \E k \in Legs, b64 \in PacerPayloads : ElevenAudio(k, b64)

PacerSpec == InitWith(PacerConfigs) /\ [][PacerNext]_vars

\* metrics: sessions one after another over the same counters, inbound media
\* of zero to 240 bytes (a base64 text of 320 characters), outbound audio
MetricsPayloads ==
    {<<>>, <<63>>} \cup {B64Encode(PcmBytes(n, 255)) : n \in {2, 240}}

MetricsStarts == {StartMsg(Undefined, "MZ1", "AC123", CpMap(ObjOf("agentX", "t1")))}

MetricsAudio == {B64Encode(PcmBytes(5, 200))}

MetricsNext ==
    \/ Connection
    \/ NextConnection
    \/ \E m \in MetricsStarts : TwilioStart(m)
    \/ \E p \in MetricsPayloads : TwilioMedia(p)
    \/ TwilioClose
    \/ \E k \in Legs : ElevenOpen(k)
    \/ \E k \in Legs, b64 \in MetricsAudio : ElevenAudio(k, b64)
    \/ \E k \in Legs : ElevenClose(k)

MetricsSpec == InitWith(PacerConfigs) /\ [][MetricsNext]_vars

\* the codec helpers on their own: each step applies one of them to an input
\* and records the result; no session is involved
Samples == {-32768, -4, -1, 0, 3, 7, 32767}

RECURSIVE SeqsUpTo(_, _)
SeqsUpTo(S, n) ==
    IF n = 0 THEN {<<>>}
    ELSE LET shorter == SeqsUpTo(S, n - 1)
         IN  shorter \cup {Append(x, v) : x \in {y \in shorter : Len(y) = n - 1}, v \in S}

\* non-empty Int16Array inputs
SampleSeqs == SeqsUpTo(Samples, MaxSamples) \ {<<>>}

Bytes == 0..255

\* one application in a run
CodecDid(e) ==
    /\ ev = NoEvent
    /\ ev' = e
    /\ UNCHANGED <<cfg, metrics, twState, session, legs, twSent, elSent, closeCalls,
                   dialed, authFailed, authPassed>>

\* upsample8kTo16k(x)
ApplyUpsample(x) ==
    CodecDid([kind |-> "upsample", leg |-> TwLeg, input |-> x,
              output |-> upsample8kTo16k(x)])

\* downsample16kTo8k(upsample8kTo16k(x))
ApplyResample(x) ==
    CodecDid([kind |-> "resample", leg |-> TwLeg, input |-> x,
              output |-> downsample16kTo8k(upsample8kTo16k(x))])

\* muLawEncode(muLawDecode(b)) and its decoding
ApplyCompanding(b) ==
    CodecDid([kind |-> "companding", leg |-> TwLeg, input |-> b,
              decoded |-> muLawDecode(b),
              output |-> muLawEncode(muLawDecode(b)),
              redecoded |-> muLawDecode(muLawEncode(muLawDecode(b)))])

CodecNext ==
    \/ \E x \in SampleSeqs : ApplyUpsample(x)
    \/ \E x \in SampleSeqs : ApplyResample(x)
    \/ \E b \in Bytes : ApplyCompanding(b)

CodecSpec == InitWith(PacerConfigs) /\ [][CodecNext]_vars

(* ------------------------------- claims ------------------------------- *)

\* the value a `start` envelope carries for custom parameter `name`: the
\* mapping's entry, or the value of the last list pair with that name
ParamOf(m, name) ==
    LET cp  == m.start.customParameters
        idx == {i \in DOMAIN cp.pairs : cp.pairs[i].name = name}
    IN  CASE cp.form = "map" /\ name \in DOMAIN cp.obj -> cp.obj[name]
          [] cp.form = "list" /\ idx # {} ->
                cp.pairs[CHOOSE i \in idx : \A j \in idx : j <= i].value
          [] OTHER -> Undefined

\* the agent identifier of a `start` envelope: its agent_id when that is
\* non-empty, else the process-wide default
AgentOf(m) ==
    IF ParamOf(m, "agent_id") \notin {Undefined, ""}
    THEN ParamOf(m, "agent_id")
    ELSE cfg.ELEVENLABS_AGENT_ID

\* conditions (a), (b) and (c) of authentication
Authentic(m) ==
    /\ cfg.TWILIO_ACCOUNT_SID = Undefined \/ m.start.accountSid = cfg.TWILIO_ACCOUNT_SID
    /\ AgentOf(m) \notin {Undefined, ""}
    /\ ParamOf(m, "token") \notin {Undefined, ""}

\* C1: a step that handles a `start` envelope dials the outbound leg iff the
\* account matches (or none is configured), an agent identifier is resolved
\* and the token is present; if not, that step closes the inbound leg with
\* code 1008 and dials nothing; if so, it dials the resolved agent identifier
C1_StartDialsIffAuthentic ==
    ev.kind = "start" =>
        /\ (dialed # <<>>) <=> Authentic(ev.msg)
        /\ ~Authentic(ev.msg) => closeCalls = <<CloseCall(TwLeg, 1008)>> /\ dialed = <<>>
        /\ Authentic(ev.msg) => dialed = <<AgentOf(ev.msg)>> /\ closeCalls = <<>>

\* a `start` with the configured account and an agent but no token was rejected
C1_Witness ==
    /\ ev.kind = "start"
    /\ cfg.TWILIO_ACCOUNT_SID = "AC123"
    /\ ev.msg.start.accountSid = "AC123"
    /\ ParamOf(ev.msg, "agent_id") = "agentX"
    /\ ParamOf(ev.msg, "token") = Undefined
    /\ closeCalls = <<CloseCall(TwLeg, 1008)>>
    /\ dialed = <<>>
    /\ twState = "CLOSING"

\* C2: once a `start` envelope of the session was rejected, no step dials the
\* outbound leg
C2_NoDialAfterRejectedStart ==
    authFailed => dialed = <<>>

\* C3: (1) a dial happens only in a step that handles an authentic `start`,
\* and outbound sockets exist only after one was accepted; (2) every
\* user_audio_chunk is sent on the current outbound socket while it is OPEN,
\* and a `media` envelope arriving otherwise causes no send and no close
C3_DialAfterStartAudioAfterOpen ==
    /\ dialed # <<>> => ev.kind = "start" /\ Authentic(ev.msg)
    /\ Len(legs) > 0 => authPassed
    /\ \A i \in DOMAIN elSent :
          elSent[i].type = "user_audio_chunk" =>
              /\ elevenWS # 0
              /\ elSent[i].leg = elevenWS
              /\ legs[elevenWS] = "OPEN"
    /\ (ev.kind = "media" /\ (elevenWS = 0 \/ legs[elevenWS] # "OPEN")) =>
          elSent = <<>> /\ twSent = <<>> /\ closeCalls = <<>>

\* a `media` envelope with audio arrived while the dialed socket was still
\* connecting, and nothing was sent
C3_Witness ==
    /\ ev.kind = "media"
    /\ Len(B64Decode(ev.payload)) > 0
    /\ elevenWS # 0
    /\ legs[elevenWS] = "CONNECTING"
    /\ elSent = <<>>

\* C4: `media` and `mark` envelopes are sent to the inbound leg only while
\* streamSid holds a non-empty value, which they carry; outbound audio
\* arriving while streamSid is unassigned sends nothing to the inbound leg
C4_SendsOnlyWithStreamSid ==
    /\ twSent # <<>> =>
          /\ streamSid \notin {Undefined, ""}
          /\ authPassed \/ authFailed
          /\ \A i \in DOMAIN twSent : twSent[i].streamSid = streamSid
    /\ (ev.kind = "audio" /\ streamSid \in {Undefined, ""}) => twSent = <<>>

\* outbound audio arrived on a session whose accepted `start` carried no
\* stream identifier, and nothing was sent to the inbound leg
C4_Witness ==
    /\ ev.kind = "audio"
    /\ ev.payload # <<>>
    /\ streamSid = Undefined
    /\ metrics.chunksFrom11L = 1
    /\ twSent = <<>>

\* C5: the step that handles an outbound socket's close calls close(1000) on
\* the inbound leg, whatever its state; the step that handles the inbound
\* leg's close calls close(1000) on the current outbound socket if there is
\* one and makes no call otherwise; a leg that was closed stays closed
C5_SymmetricClose ==
    ev.kind = "close" =>
        /\ ev.leg # TwLeg =>
              /\ closeCalls = <<CloseCall(TwLeg, 1000)>>
              /\ twState \in {"CLOSING", "CLOSED"}
              /\ legs[ev.leg] = "CLOSED"
        /\ ev.leg = TwLeg =>
              /\ twState = "CLOSED"
              /\ elevenWS # 0 =>
                    /\ closeCalls = <<CloseCall(elevenWS, 1000)>>
                    /\ legs[elevenWS] \in {"CLOSING", "ABORTED", "FAILED", "CLOSED"}
              /\ elevenWS = 0 => closeCalls = <<>>

\* the outbound socket reported close after the inbound leg had closed: the
\* close call went to the already closed inbound leg
C5_Witness ==
    /\ ev.kind = "close"
    /\ ev.leg = elevenWS
    /\ twState = "CLOSED"
    /\ closeCalls = <<CloseCall(TwLeg, 1000)>>

\* C6: a step that handles a transport error of either leg while the session
\* has an outbound socket calls close(1000) on the paired leg
C6_ErrorClosesPairedLeg ==
    (ev.kind = "error" /\ elevenWS # 0) =>
        closeCalls = IF ev.leg = TwLeg
                     THEN <<CloseCall(elevenWS, 1000)>>
                     ELSE <<CloseCall(TwLeg, 1000)>>

\* C7: a session dials the outbound leg at most once
C7_DialsAtMostOnce ==
    Len(legs) <= 1 /\ metrics.elevenConnections <= 1

\* every close the bridge or ws asked for has been reported, and no handshake
\* is still under way
AtRest ==
    \A k \in Legs : legs[k] \notin {"CONNECTING", "CLOSING", "ABORTED", "FAILED"}

\* C8: once the inbound leg of a session that dialed has closed and every
\* requested close has been reported, every outbound socket the session
\* dialed is closed
C8_AllLegsClosedAtRest ==
    (authPassed /\ twState = "CLOSED" /\ AtRest) =>
        \A k \in Legs : legs[k] = "CLOSED"

\* bytes carried by the `media` envelopes of a sequence of envelopes
RECURSIVE MediaBytes(_)
MediaBytes(envs) ==
    IF envs = <<>> THEN 0
    ELSE (IF Head(envs).event = "media" THEN Len(B64Decode(Head(envs).payload)) ELSE 0)
             + MediaBytes(Tail(envs))

\* length of the mu-law buffer made from a PCM16 payload: one byte per two
\* samples of two bytes
UlawLen(b64) == (Len(B64Decode(b64)) \div 2) \div 2

\* C9: for a mu-law buffer of N bytes handed to the pacer, the step sends
\* ceil(N / 160) `media` envelopes whose payloads hold N bytes in all, then
\* exactly one `mark` envelope
C9_FramePacing ==
    (ev.kind = "audio" /\ ev.payload # <<>> /\ streamSid \notin {Undefined, ""}) =>
        LET N == UlawLen(ev.payload)
            n == (N + 159) \div 160
        IN  /\ Len(twSent) = n + 1
            /\ \A i \in 1..n : twSent[i].event = "media"
            /\ twSent[n + 1].event = "mark"
            /\ MediaBytes(twSent) = N

\* a buffer of 321 bytes went out as frames of 160, 160 and 1 bytes and a mark
C9_Witness ==
    /\ ev.kind = "audio"
    /\ UlawLen(ev.payload) = 321
    /\ Len(twSent) = 4
    /\ Len(B64Decode(twSent[2].payload)) = 160
    /\ Len(B64Decode(twSent[3].payload)) = 1
    /\ twSent[4].event = "mark"

\* C10: a step that handles a ping carrying an event identifier sends exactly
\* one pong with that identifier on an outbound socket, and nothing to the
\* inbound leg
C10_PingAnsweredWithPong ==
    (ev.kind = "ping" /\ ev.event_id # NoEventId) =>
        /\ Len(elSent) = 1
        /\ elSent[1].type = "pong"
        /\ elSent[1].event_id = ev.event_id
        /\ twSent = <<>>

\* C11: a step that handles a message that is no JSON or carries an
\* unrecognized tag, on either leg, sends nothing, closes nothing, dials
\* nothing and leaves the configuration, the counters, both legs' transports,
\* the session's identifier, agent and socket handle and the authentication
\* record as they were, so that later messages are handled as without it
C11_UnknownMessageDropped ==
    [][ev'.kind = "other" =>
          /\ twSent' = <<>> /\ elSent' = <<>> /\ closeCalls' = <<>> /\ dialed' = <<>>
          /\ UNCHANGED <<cfg, metrics, twState, streamSid, agentId, elevenWS, legs,
                         authFailed, authPassed>>]_vars

\* an unrecognized inbound message arrived on an identified session whose
\* outbound socket is open, and the socket was left open
C11_Witness ==
    /\ ev.kind = "other"
    /\ ev.leg = TwLeg
    /\ streamSid = "MZ1"
    /\ elevenWS # 0
    /\ legs[elevenWS] = "OPEN"
    /\ closeCalls = <<>>

\* bytes a base64 text stands for: three for every four characters that are
\* not padding
DecodedByteLength(p) ==
    (3 * Cardinality({i \in DOMAIN p : p[i] # Pad})) \div 4

\* C12: every step that handles an inbound `media` envelope with a non-empty
\* payload adds the number of bytes the payload decodes to (not the number
\* of its characters) to bytesFromTwilio and one to chunksFromTwilio
C12_MediaCounted ==
    [][(ev'.kind = "media" /\ ev'.payload # <<>>) =>
          /\ metrics'.bytesFromTwilio = metrics.bytesFromTwilio + DecodedByteLength(ev'.payload)
          /\ metrics'.chunksFromTwilio = metrics.chunksFromTwilio + 1]_vars

\* a `media` envelope of 320 characters was counted as 240 bytes and one chunk
\* before any `start` envelope arrived
C12_Witness ==
    /\ ev.kind = "media"
    /\ Len(ev.payload) = 320
    /\ ~authPassed /\ ~authFailed
    /\ metrics.bytesFromTwilio = 240
    /\ metrics.chunksFromTwilio = 1

\* C13: no step lowers any of the six counters
C13_CountersMonotonic ==
    [][/\ DOMAIN metrics' = DOMAIN metrics
       /\ \A c \in DOMAIN metrics : metrics'[c] >= metrics[c]]_vars

\* a second session runs over counters the first one raised
C13_Witness ==
    /\ metrics.twilioConnections = 2
    /\ metrics.elevenConnections >= 1
    /\ metrics.chunksFromTwilio + metrics.chunksFrom11L >= 1
    /\ twState = "OPEN"
    /\ ev.kind = "connection"

\* C14: upsampling N >= 1 samples yields 2N samples: each sample followed by
\* the floor midpoint with its successor, and the last sample twice
C14_UpsampleDoubles ==
    ev.kind = "upsample" =>
        LET x == ev.input
            N == Len(x)
        IN  /\ Len(ev.output) = 2 * N
            /\ \A i \in 1..N : ev.output[2 * i - 1] = x[i]
            /\ \A i \in 1..(N - 1) : ev.output[2 * i] = (x[i] + x[i + 1]) \div 2
            /\ ev.output[2 * N] = x[N]

Abs(n) == IF n < 0 THEN -n ELSE n

\* C15 as stated: the round trip reproduces x within one unit at every
\* position but the last
C15_RoundTripWithinOne ==
    ev.kind = "resample" =>
        \A j \in 1..(Len(ev.input) - 1) :
            /\ j \in DOMAIN ev.output
            /\ Abs(ev.output[j] - ev.input[j]) <= 1

\* C15 as amended: at every position j but the last the round trip yields
\* x[j] + floor((x[j+1] - x[j]) / 4), which is within one unit of x[j] when
\* x[j+1] - x[j] lies in -4..7; the result does not hold the last position
C15_RoundTripQuarterStep ==
    ev.kind = "resample" =>
        /\ Len(ev.output) = Len(ev.input) - 1
        /\ \A j \in 1..(Len(ev.input) - 1) :
              LET d == ev.input[j + 1] - ev.input[j]
              IN  /\ ev.output[j] = ev.input[j] + d \div 4
                  /\ d \in -4..7 => Abs(ev.output[j] - ev.input[j]) <= 1

\* a three-sample sequence with steps of 3 and 4 came back as two samples,
\* the first unchanged and the second raised by one
C15_Witness ==
    /\ ev.kind = "resample"
    /\ ev.input = <<0, 3, 7>>
    /\ ev.output = <<0, 4>>

\* C16: for every byte b the sample decoded from b, encoded and decoded
\* again, lies within 2^(e+3) of the sample decoded from b, where e is the
\* exponent field of the inverted byte
C16_CompandingWithinStep ==
    ev.kind = "companding" =>
        LET e == ((255 - ev.input) \div 16) % 8
        IN  Abs(ev.redecoded - ev.decoded) <= Pow2(e + 3)

\* C17: a step that handles an outbound `audio` message whose payload decodes
\* to an odd number of bytes sends nothing to the inbound leg, closes nothing
\* and leaves the session as it was
C17_OddPcmDropped ==
    (ev.kind = "audio" /\ DecodedByteLength(ev.payload) % 2 = 1) =>
        twSent = <<>> /\ elSent = <<>> /\ closeCalls = <<>>

\* the names of a list of pairs are distinct
DistinctNames(pairs) ==
    \A i, j \in DOMAIN pairs : pairs[i].name = pairs[j].name => i = j

\* the flat mapping that holds the pairs of a list with distinct names
MapOfPairs(pairs) ==
    [n \in {pairs[i].name : i \in DOMAIN pairs} |->
        pairs[CHOOSE i \in DOMAIN pairs : pairs[i].name = n].value]

\* C18: a step that handles a `start` envelope whose custom parameters are a
\* list of pairs with distinct names ends as the start branch does for the
\* envelope carrying the same pairs as a flat mapping: the same lookup
\* structure, the same agent identifier, the same acceptance or rejection;
\* absent custom parameters are the empty mapping: no token, and the default
\* agent
C18_ListAndMapAgree ==
    ev.kind = "start" =>
        LET cp   == ev.msg.start.customParameters
            twin == [ev.msg EXCEPT !.start.customParameters = CpMap(MapOfPairs(cp.pairs))]
            obj  == twin.start.customParameters.obj
        IN  /\ (cp.form = "list" /\ DistinctNames(cp.pairs)) =>
                  /\ getCustomParams(ev.msg.start) = obj
                  /\ (dialed # <<>>) <=> (StartOutcome(twin, cfg) = "ok")
                  /\ dialed # <<>> =>
                        dialed = <<Or(Get(obj, "agent_id"), cfg.ELEVENLABS_AGENT_ID)>>
                  /\ StartOutcome(twin, cfg) # "bad account" =>
                        agentId = Or(Get(obj, "agent_id"), cfg.ELEVENLABS_AGENT_ID)
                  /\ StartOutcome(twin, cfg) # "ok" =>
                        closeCalls = <<CloseCall(TwLeg, 1008)>>
            /\ cp.form = "none" =>
                  /\ getCustomParams(ev.msg.start) = EmptyObj
                  /\ dialed = <<>>
                  /\ closeCalls = <<CloseCall(TwLeg, 1008)>>
                  /\ StartOutcome(ev.msg, cfg) # "bad account" =>
                        agentId = cfg.ELEVENLABS_AGENT_ID

\* a `start` envelope carrying agent_id and token as a list of pairs was
\* accepted and dialed that agent
C18_Witness ==
    /\ ev.kind = "start"
    /\ ev.msg.start.customParameters.form = "list"
    /\ Len(ev.msg.start.customParameters.pairs) = 2
    /\ dialed = <<"agentX">>
    /\ agentId = "agentX"

\* the mu-law buffer the audio branch makes from a PCM16 payload
UlawOf(b64) ==
    pcm8kToMuLawBuffer(downsample16kTo8k(b64Pcm16ToInt16(b64, cfg.ELEVEN_ENDIAN = "le")))

\* the bytes of the `media` envelopes of a sequence of envelopes, in order
RECURSIVE MediaConcat(_)
MediaConcat(envs) ==
    IF envs = <<>> THEN <<>>
    ELSE (IF Head(envs).event = "media" THEN B64Decode(Head(envs).payload) ELSE <<>>)
             \o MediaConcat(Tail(envs))

\* C19: the payloads of the `media` envelopes a step sends for a mu-law
\* buffer, decoded and joined in send order, are the buffer; every payload
\* but the last holds 160 bytes and the last holds 1 to 160
C19_PacerKeepsContent ==
    (ev.kind = "audio" /\ ev.payload # <<>> /\ streamSid \notin {Undefined, ""}) =>
        LET media == SelectSeq(twSent, LAMBDA e : e.event = "media")
            n     == Len(media)
        IN  /\ MediaConcat(twSent) = UlawOf(ev.payload)
            /\ \A i \in 1..(n - 1) : Len(B64Decode(media[i].payload)) = 160
            /\ n > 0 => Len(B64Decode(media[n].payload)) \in 1..160

\* a buffer of 320 bytes went out as its first and its second 160 bytes
C19_Witness ==
    /\ ev.kind = "audio"
    /\ Len(UlawOf(ev.payload)) = 320
    /\ Len(twSent) = 3
    /\ B64Decode(twSent[1].payload) = SubSeq(UlawOf(ev.payload), 1, 160)
    /\ B64Decode(twSent[2].payload) = SubSeq(UlawOf(ev.payload), 161, 320)
    /\ twSent[1].payload # twSent[2].payload

\* C20: once the inbound socket has reported its close, no step hands a
\* `media` or `mark` envelope to it
C20_NoSendAfterInboundClose ==
    twState = "CLOSED" => twSent = <<>>

=============================================================================
